---- MODULE Spec2Model ----
(***************************************************************************)
(* A model of the JSON Schema output plugin (utils/pyang_plugins/          *)
(* jsonschema.py): one emit() run over a resolved statement tree, executed *)
(* as an explicit call stack so that the Definition Registry is observable *)
(* between the placeholder insertion and its overwrite.                    *)
(*                                                                         *)
(* Python values are modelled as follows: a dict is a function with a set  *)
(* of strings as its domain, a list is a sequence, None is the record      *)
(* None below, an absent optional substatement is the empty sequence.      *)
(***************************************************************************)
EXTENDS Integers, Sequences, FiniteSets, TLC

VARIABLES
    opts,             \* ctx.opts: schema_no_ns, schema_config_only
    modules,          \* the modules handed to emit, in iteration order
    typedefs,         \* the typedef statements type descriptors resolve to
    probe_config,     \* i_config of the leaf "st" (true / false / None)
    definitions,      \* self.definitions, the shared $defs registry
    data_properties,  \* emit's data_properties
    ops_properties,   \* emit's ops_properties
    result,           \* emit's result document (None until assembled)
    stack,            \* the call stack, emit's frame at the bottom
    ret,              \* the value returned by the call that last returned
    type_calls,       \* history: every produce_type call with its result
    keyed,            \* history: every <<node, key>> qualify_name produced
    compiled,         \* history: per key, how often its base type was compiled
    innermost         \* history: lookups that met a key still in progress

vars == << opts, modules, typedefs, probe_config, definitions, data_properties,
           ops_properties, result, stack, ret, type_calls, keyed, compiled,
           innermost >>

\* Number of typedef statements of the input tree.
NumTypedefs == 2

\* Cap on the depth of the call stack (Python's recursion limit, scaled).
MaxStack == 24

None == [none |-> TRUE]

EmptyDict == [k \in {} |-> k]

Truthy(schema) == schema # None /\ DOMAIN schema # {}

(***************************************************************************)
(* The input: type descriptors, typedefs and the statement tree.           *)
(***************************************************************************)

\* A "type" statement naming a built-in (or unknown) type.
Prim(sid, name) ==
    [sid |-> sid, arg |-> name, i_typedef |-> 0, type |-> << >>,
     pattern |-> << >>, enum |-> << >>]

\* A "type" statement that resolves to typedef number i.
TypedefModule(i) == IF i % 2 = 1 THEN "m1" ELSE "m2"

TypedefName(i) == IF i <= 2 THEN "pct" ELSE "t" \o ToString(i)

Ref(sid, i) == [Prim(sid, TypedefName(i)) EXCEPT !.i_typedef = i]

Union(sid, members) == [Prim(sid, "union") EXCEPT !.type = members]

Node(kw, arg, mod, parent, cfg, type, desc, when) ==
    [keyword |-> kw, arg |-> arg, i_module |-> mod, parent |-> parent,
     i_config |-> cfg, type |-> type, description |-> desc, when |-> when]

Stmts == <<
    Node("module", "m1", "m1", 0, "none", None, << >>, << >>),                    \* 1
    Node("container", "top", "m1", 1, "true", None, <<"Top level">>, << >>),      \* 2
    Node("leaf", "a", "m1", 2, "true", Prim("a", "uint64"),
         <<"A counter">>, <<"../b">>),                                            \* 3
    Node("leaf", "b", "m1", 2, "true", Prim("b", "empty"), << >>, <<"../a">>),    \* 4
    Node("leaf", "c", "m1", 2, "true", Ref("c", 1), <<"Percent">>, << >>),        \* 5
    Node("leaf-list", "ll", "m1", 2, "true", Ref("ll", 1), <<"Many">>, << >>),    \* 6
    Node("leaf", "u", "m1", 2, "true",
         Union("u", <<Prim("u.1", "string"), Prim("u.2", "int32")>>),
         << >>, << >>),                                                           \* 7
    Node("leaf", "v", "m1", 2, "true",
         Union("v", <<Ref("v.1", 1), Prim("v.2", "boolean")>>), << >>, << >>),    \* 8
    Node("choice", "ch", "m1", 2, "true", None, <<"Pick one">>, << >>),           \* 9
    Node("case", "c1", "m1", 9, "true", None, << >>, << >>),                      \* 10
    Node("leaf", "x", "m1", 10, "true", Prim("x", "string"), << >>, << >>),       \* 11
    Node("case", "c2", "m1", 9, "true", None, << >>, << >>),                      \* 12
    Node("leaf", "y", "m1", 12, "true", Ref("y", 1), << >>, << >>),               \* 13
    Node("anydata", "blob", "m1", 2, "true", None, <<"Opaque blob">>, << >>),     \* 14
    Node("leaf", "aug", "m2", 2, "true",
         [Prim("aug", "enumeration") EXCEPT !.enum =
            << [arg |-> "up", description |-> <<" Link is up ">>],
               [arg |-> "down", description |-> << >>] >>],
         <<"Augmented">>, << >>),                                                 \* 15
    Node("list", "lst", "m1", 2, "true", None, << >>, <<"a">>),                   \* 16
    Node("leaf", "k", "m1", 16, "true",
         [Prim("k", "string") EXCEPT !.pattern = <<"[a-z]+">>], << >>, << >>),    \* 17
    Node("leaf", "st", "m1", 16, "probe", Prim("st", "decimal64"),
         << >>, << >>),                                                           \* 18
    Node("container", "mid", "m1", 2, "false", None, << >>, << >>),               \* 19
    Node("container", "inner", "m1", 19, "false", None, << >>, << >>),            \* 20
    Node("action", "act", "m1", 20, "none", None, <<"An action">>, << >>),        \* 21
    Node("input", "input", "m1", 21, "none", None, << >>, << >>),                 \* 22
    Node("leaf", "ai", "m1", 22, "none", Ref("ai", 1), << >>, << >>),             \* 23
    Node("leaf", "deep", "m1", 20, "false", Prim("deep", "boolean"),
         << >>, << >>),                                                           \* 24
    Node("rpc", "r", "m1", 1, "none", None, <<"An rpc">>, << >>),                 \* 25
    Node("input", "input", "m1", 25, "none", None, << >>, << >>),                 \* 26
    Node("leaf", "ri", "m1", 26, "none", Prim("ri", "int64"), << >>, << >>),      \* 27
    Node("output", "output", "m1", 25, "none", None, << >>, << >>),               \* 28
    Node("leaf", "ro", "m1", 28, "false", Ref("ro", 2), <<"Reply">>, << >>),      \* 29
    Node("choice", "och", "m1", 28, "none", None, << >>, << >>),                  \* 30
    Node("module", "m2", "m2", 0, "none", None, << >>, << >>),                    \* 31
    Node("container", "types", "m2", 31, "true", None, << >>, << >>),             \* 32
    Node("leaf", "i8", "m2", 32, "true", Prim("i8", "int8"), << >>, << >>),       \* 33
    Node("leaf", "i16", "m2", 32, "true", Prim("i16", "int16"), << >>, << >>),    \* 34
    Node("leaf", "u8", "m2", 32, "true", Prim("u8", "uint8"), << >>, << >>),      \* 35
    Node("leaf", "u16", "m2", 32, "true", Prim("u16", "uint16"), << >>, << >>),   \* 36
    Node("leaf", "u32", "m2", 32, "true", Prim("u32", "uint32"), << >>, << >>),   \* 37
    Node("leaf", "bin", "m2", 32, "true", Prim("bin", "binary"), << >>, << >>),   \* 38
    Node("leaf", "idr", "m2", 32, "false", Prim("idr", "identityref"),
         << >>, << >>),                                                           \* 39
    Node("leaf", "nt", "m2", 32, "true", None, <<"Untyped">>, << >>),             \* 40
    Node("anyxml", "raw", "m2", 31, "true", None, << >>, <<"types">>),            \* 41
    Node("rpc", "r2", "m2", 31, "none", None, << >>, << >>),                      \* 42
    Node("output", "output", "m2", 42, "none", None, << >>, << >>),               \* 43
    Node("anydata", "payload", "m2", 43, "false", None, << >>, << >>)             \* 44
>>

NodeIds == 1 .. Len(Stmts)

\* The statement n as the plugin reads it (i_config of the probe leaf varies).
Stmt(n) ==
    IF Stmts[n].i_config = "probe"
    THEN [Stmts[n] EXCEPT !.i_config = probe_config]
    ELSE Stmts[n]

RECURSIVE ChildrenFrom(_, _)
ChildrenFrom(p, n) ==
    IF n > Len(Stmts) THEN << >>
    ELSE IF Stmts[n].parent = p THEN <<n>> \o ChildrenFrom(p, n + 1)
    ELSE ChildrenFrom(p, n + 1)

ChildrenTable == [p \in NodeIds |-> ChildrenFrom(p, 1)]

\* stmt.i_children, in declaration order (empty when the attribute is missing).
i_children(p) == ChildrenTable[p]

\* stmt.search_one(kw) for the "input" / "output" substatements: a node or 0.
search_one(p, kw) ==
    LET hits == SelectSeq(i_children(p), LAMBDA c : Stmts[c].keyword = kw)
    IN  IF hits = << >> THEN 0 ELSE hits[1]

\* The base "type" substatement of typedef i, by the choice made for it.
BaseType(i, choice) ==
    LET sid == "td" \o ToString(i)
    IN  CASE choice = "prim"  -> Prim(sid, "uint8")
          [] choice = "next"  -> Ref(sid, (i % NumTypedefs) + 1)
          [] choice = "self"  -> Ref(sid, i)
          [] choice = "union" ->
                Union(sid, <<Prim(sid \o ".1", "string"), Ref(sid \o ".2", 1)>>)

BaseChoices == {"prim", "next", "self", "union"}

Typedef(i, choice) ==
    [arg |-> TypedefName(i), i_module |-> TypedefModule(i),
     type |-> BaseType(i, choice),
     description |-> IF i = 1 THEN <<"A percentage">> ELSE << >>,
     when |-> << >>]

(***************************************************************************)
(* Pure helpers of the plugin.                                             *)
(***************************************************************************)

\* "%s:%s" % (module, name); i_module is modelled by the module's name, and
\* a missing i_module (getattr's None) by the empty string.
Qualified(mod, name) == mod \o ":" \o name

\* A variant of qualify_name without the forced qualification of operations.
qualify_name_NoOperationRule(n) ==
    LET stmt == Stmt(n)
        is_top_level == Stmt(stmt.parent).keyword \in {"module", "submodule"}
        parent_mod == Stmt(stmt.parent).i_module
    IN  IF is_top_level \/ (parent_mod # "" /\ stmt.i_module # parent_mod)
        THEN Qualified(stmt.i_module, stmt.arg)
        ELSE stmt.arg

qualify_name(n) ==
    LET stmt == Stmt(n)
    IN  IF stmt.keyword \in {"rpc", "action"}
        THEN Qualified(stmt.i_module, stmt.arg)
        ELSE LET is_top_level ==
                     Stmt(stmt.parent).keyword \in {"module", "submodule"}
                 this_mod == stmt.i_module
                 parent_mod == Stmt(stmt.parent).i_module
             IN  IF is_top_level \/ (parent_mod # "" /\ this_mod # parent_mod)
                 THEN Qualified(this_mod, stmt.arg)
                 ELSE stmt.arg

\* str.strip() on the enum descriptions that occur in the tree.
strip(s) == IF s = " Link is up " THEN "Link is up" ELSE s

RECURSIVE join(_, _)
join(sep, parts) ==
    IF parts = << >> THEN ""
    ELSE IF Len(parts) = 1 THEN parts[1]
    ELSE parts[1] \o sep \o join(sep, Tail(parts))

RECURSIVE EnumDescs(_)
EnumDescs(enums) ==
    IF enums = << >> THEN << >>
    ELSE (IF enums[1].description # << >>
          THEN <<enums[1].arg \o ": " \o strip(enums[1].description[1])>>
          ELSE << >>) \o EnumDescs(Tail(enums))

RECURSIVE Bulleted(_)
Bulleted(ds) ==
    IF ds = << >> THEN << >> ELSE <<"  * " \o ds[1]>> \o Bulleted(Tail(ds))

RECURSIVE Conditions(_)
Conditions(ws) ==
    IF ws = << >> THEN << >>
    ELSE <<"Condition: " \o ws[1]>> \o Conditions(Tail(ws))

\* stmt is a statement record (a tree node or a typedef).
annotate_schema(stmt, schema) ==
    IF schema = None THEN None
    ELSE LET base == IF stmt.description # << >>
                     THEN <<stmt.description[1]>> ELSE << >>
             type_stmt == stmt.type
             enum_descs == IF type_stmt # None /\ type_stmt.arg = "enumeration"
                           THEN EnumDescs(type_stmt.enum) ELSE << >>
             enum_block == IF enum_descs # << >>
                           THEN <<"Supported values:\n"
                                   \o join("\n", Bulleted(enum_descs))>>
                           ELSE << >>
             descriptions == base \o enum_block \o Conditions(stmt.when)
         IN  IF descriptions # << >>
             THEN ("description" :> join("\n\n", descriptions)) @@ schema
             ELSE schema

\* The DefinitionKey of a typedef statement.
def_key(typedef) ==
    IF opts.schema_no_ns
    THEN typedef.arg
    ELSE typedef.i_module \o "_" \o typedef.arg

\* A variant that forgets the "#/$defs/" pointer prefix.
TypedefRef_NoPrefix(key) == ("$ref" :> key)

\* The reference fragment produce_type returns for a typedef.
TypedefRef(key) == ("$ref" :> ("#/$defs/" \o key))

\* A variant in which 64-bit integers are emitted as JSON integers.
BuiltinType_Int64AsInteger(type_stmt) ==
    LET type_name == type_stmt.arg
    IN  IF type_name \in {"int8", "int16", "int32", "uint8", "uint16", "uint32",
                          "int64", "uint64"}
        THEN [type |-> "integer"]
        ELSE IF type_name = "empty"
        THEN [type |-> "array", prefixItems |-> <<[type |-> "null"]>>,
              maxItems |-> 1]
        ELSE [type |-> "string"]

\* produce_type on a descriptor that is present, is no typedef and no union.
BuiltinType(type_stmt) ==
    LET type_name == type_stmt.arg
    IN  IF type_name \in {"int8", "int16", "int32", "uint8", "uint16", "uint32"}
        THEN [type |-> "integer"]
        ELSE IF type_name \in {"int64", "uint64"}
        THEN [type |-> "string", pattern |-> "^-?[0-9]+$"]
        ELSE IF type_name = "decimal64"
        THEN [type |-> "string", pattern |-> "^-?[0-9]+\\.[0-9]+$"]
        ELSE IF type_name = "string"
        THEN IF type_stmt.pattern # << >>
             THEN [type |-> "string", pattern |-> type_stmt.pattern[1]]
             ELSE [type |-> "string"]
        ELSE IF type_name = "boolean"
        THEN [type |-> "boolean"]
        ELSE IF type_name = "enumeration"
        THEN [type |-> "string",
              enum |-> [j \in 1 .. Len(type_stmt.enum) |-> type_stmt.enum[j].arg]]
        ELSE IF type_name = "empty"
        THEN [type |-> "array", prefixItems |-> <<[type |-> "null"]>>,
              maxItems |-> 1]
        ELSE [type |-> "string"]

\* The keys of the producers map.
producers ==
    {"container", "list", "leaf-list", "leaf", "choice", "anydata", "anyxml"}

\* The producers that are lambdas, and what each returns.
LambdaProducer(keyword) ==
    IF keyword = "choice" THEN None ELSE [type |-> "object"]

\* A variant of the filter test that ignores the config_filter argument.
IsFiltered_IgnoresArgument(child, config_filter) == child.i_config = "false"

\* produce_children's filtering test on one child statement.
IsFiltered(child, config_filter) ==
    config_filter /\ child.i_config = "false"

(***************************************************************************)
(* The call stack.                                                         *)
(***************************************************************************)

\* One activation record: the function, its position, and its locals.
Frame(fn, pc, stmt, type_stmt, config_filter, i, acc, key) ==
    [fn |-> fn, pc |-> pc, stmt |-> stmt, type_stmt |-> type_stmt,
     config_filter |-> config_filter, i |-> i, acc |-> acc, key |-> key]

Top == stack[Len(stack)]

Caller == SubSeq(stack, 1, Len(stack) - 1)

\* The stack with its top frame replaced by f.
Goto(f) == [stack EXCEPT ![Len(stack)] = f]

Running(fn, pc) == stack # << >> /\ Top.fn = fn /\ Top.pc = pc

CanCall(n) == Len(stack) + n <= MaxStack

Done == Running("emit", "done")

\* The inputs of the run, which no action changes.
Inputs == << opts, modules, typedefs, probe_config >>

ChildrenFrame(n, config_filter) ==
    Frame("produce_children", "loop", n, None, config_filter, 1, EmptyDict, "")

TypeFrame(type_stmt) ==
    Frame("produce_type", "start", 0, type_stmt, FALSE, 1, << >>, "")

\* A key is in progress while the call that inserted its placeholder is active.
InProgress(key) ==
    \E d \in 1 .. Len(stack) :
        /\ stack[d].fn = "produce_type"
        /\ stack[d].pc = "overwrite"
        /\ stack[d].key = key

(***************************************************************************)
(* emit                                                                    *)
(***************************************************************************)

Init ==
    /\ opts \in [schema_no_ns : BOOLEAN, schema_config_only : BOOLEAN]
    /\ modules \in {<<1, 31>>, <<31>>}
    /\ \E choice \in [1 .. NumTypedefs -> BaseChoices] :
           typedefs = [i \in 1 .. NumTypedefs |-> Typedef(i, choice[i])]
    /\ probe_config \in {"true", "false", "none"}
    /\ definitions = EmptyDict
    /\ data_properties = EmptyDict
    /\ ops_properties = EmptyDict
    /\ result = None
    /\ stack = <<Frame("emit", "data", 0, None, FALSE, 1, EmptyDict, "")>>
    /\ ret = None
    /\ type_calls = {}
    /\ keyed = {}
    /\ compiled = EmptyDict
    /\ innermost = {}

\* for module in modules: produce_children(module, ..., apply_config_filter)
EmitDataCall ==
    /\ Running("emit", "data")
    /\ Top.i <= Len(modules)
    /\ CanCall(1)
    /\ stack' = Goto([Top EXCEPT !.pc = "data_ret"])
                  \o <<ChildrenFrame(modules[Top.i], opts.schema_config_only)>>
    /\ UNCHANGED << Inputs, definitions, data_properties, ops_properties,
                    result, ret, type_calls, keyed, compiled, innermost >>

\* data_properties.update(mod_props)
EmitDataUpdate ==
    /\ Running("emit", "data_ret")
    /\ data_properties' = ret @@ data_properties
    /\ stack' = Goto([Top EXCEPT !.pc = "data", !.i = @ + 1])
    /\ UNCHANGED << Inputs, definitions, ops_properties, result, ret,
                    type_calls, keyed, compiled, innermost >>

\* The data loop is over: start the operations loop at the first module.
EmitDataDone ==
    /\ Running("emit", "data")
    /\ Top.i > Len(modules)
    /\ stack' = Goto([Top EXCEPT !.pc = "rpcs", !.i = 1, !.stmt = 1])
    /\ UNCHANGED << Inputs, definitions, data_properties, ops_properties,
                    result, ret, type_calls, keyed, compiled, innermost >>

\* 2a. One child of the module: an rpc is compiled, anything else passed over.
\* The emit frame keeps the module index in stmt and the child index in i.
EmitRpcCall ==
    /\ Running("emit", "rpcs")
    /\ Top.stmt <= Len(modules)
    /\ Top.i <= Len(i_children(modules[Top.stmt]))
    /\ LET child == i_children(modules[Top.stmt])[Top.i]
       IN  /\ Stmt(child).keyword = "rpc"
           /\ CanCall(1)
           /\ keyed' = keyed \cup {<<child, qualify_name(child)>>}
           /\ stack' = Goto([Top EXCEPT !.pc = "rpc_ret",
                                        !.key = qualify_name(child)])
                         \o <<Frame("produce_operation", "input", child, None,
                                    FALSE, 1, EmptyDict, "")>>
    /\ UNCHANGED << Inputs, definitions, data_properties, ops_properties,
                    result, ret, type_calls, compiled, innermost >>

EmitRpcSkip ==
    /\ Running("emit", "rpcs")
    /\ Top.stmt <= Len(modules)
    /\ Top.i <= Len(i_children(modules[Top.stmt]))
    /\ Stmt(i_children(modules[Top.stmt])[Top.i]).keyword # "rpc"
    /\ stack' = Goto([Top EXCEPT !.i = @ + 1])
    /\ UNCHANGED << Inputs, definitions, data_properties, ops_properties,
                    result, ret, type_calls, keyed, compiled, innermost >>

\* ops_properties[op_name] = self.produce_operation(child, ctx.opts)
EmitRpcStore ==
    /\ Running("emit", "rpc_ret")
    /\ ops_properties' = (Top.key :> ret) @@ ops_properties
    /\ stack' = Goto([Top EXCEPT !.pc = "rpcs", !.i = @ + 1])
    /\ UNCHANGED << Inputs, definitions, data_properties, result, ret,
                    type_calls, keyed, compiled, innermost >>

\* 2b. self.find_actions(module, ops_properties, ctx.opts)
EmitFindActions ==
    /\ Running("emit", "rpcs")
    /\ Top.stmt <= Len(modules)
    /\ Top.i > Len(i_children(modules[Top.stmt]))
    /\ CanCall(1)
    /\ stack' = Goto([Top EXCEPT !.stmt = @ + 1, !.i = 1])
                  \o <<Frame("find_actions", "loop", modules[Top.stmt], None,
                             FALSE, 1, EmptyDict, "")>>
    /\ UNCHANGED << Inputs, definitions, data_properties, ops_properties,
                    result, ret, type_calls, keyed, compiled, innermost >>

\* A variant of the clean-up that drops $defs when it is not empty.
CleanUp_Inverted(document) ==
    IF DOMAIN document["$defs"] # {}
    THEN [k \in DOMAIN document \ {"$defs"} |-> document[k]]
    ELSE document

\* if not result["$defs"]: del result["$defs"]
CleanUp(document) ==
    IF DOMAIN document["$defs"] = {}
    THEN [k \in DOMAIN document \ {"$defs"} |-> document[k]]
    ELSE document

\* 3. Construct the final root object, clean up, and finish.
EmitAssemble ==
    /\ Running("emit", "rpcs")
    /\ Top.stmt > Len(modules)
    /\ result' = CleanUp(
          ("$schema" :> "https://json-schema.org/draft/2020-12/schema")
          @@ [title |-> "YANG Model Schema",
              type |-> "object",
              properties |->
                 [data |->
                     [type |-> "object",
                      title |-> "Data Tree",
                      description |-> "The configuration and state data tree.",
                      properties |-> data_properties,
                      additionalProperties |-> FALSE],
                  operations |->
                     [type |-> "object",
                      title |-> "Operations",
                      description |-> "RPCs and Actions.",
                      properties |-> ops_properties,
                      additionalProperties |-> FALSE]]]
          @@ ("$defs" :> definitions))
    /\ stack' = Goto([Top EXCEPT !.pc = "done"])
    /\ UNCHANGED << Inputs, definitions, data_properties, ops_properties, ret,
                    type_calls, keyed, compiled, innermost >>

(***************************************************************************)
(* find_actions                                                            *)
(***************************************************************************)

\* An action child: compile it; its subtree is searched after the store.
FindActionsCall ==
    /\ Running("find_actions", "loop")
    /\ Top.i <= Len(i_children(Top.stmt))
    /\ LET child == i_children(Top.stmt)[Top.i]
       IN  /\ Stmt(child).keyword = "action"
           /\ CanCall(1)
           /\ keyed' = keyed \cup {<<child, qualify_name(child)>>}
           /\ stack' = Goto([Top EXCEPT !.pc = "op_ret",
                                        !.key = qualify_name(child)])
                         \o <<Frame("produce_operation", "input", child, None,
                                    FALSE, 1, EmptyDict, "")>>
    /\ UNCHANGED << Inputs, definitions, data_properties, ops_properties,
                    result, ret, type_calls, compiled, innermost >>

\* operations[op_name] = ...; then self.find_actions(child, ...)
FindActionsStore ==
    /\ Running("find_actions", "op_ret")
    /\ CanCall(1)
    /\ ops_properties' = (Top.key :> ret) @@ ops_properties
    /\ stack' = Goto([Top EXCEPT !.pc = "loop", !.i = @ + 1])
                  \o <<Frame("find_actions", "loop", i_children(Top.stmt)[Top.i],
                             None, FALSE, 1, EmptyDict, "")>>
    /\ UNCHANGED << Inputs, definitions, data_properties, result, ret,
                    type_calls, keyed, compiled, innermost >>

\* Any other child: self.find_actions(child, ...)
FindActionsDescend ==
    /\ Running("find_actions", "loop")
    /\ Top.i <= Len(i_children(Top.stmt))
    /\ Stmt(i_children(Top.stmt)[Top.i]).keyword # "action"
    /\ CanCall(1)
    /\ stack' = Goto([Top EXCEPT !.i = @ + 1])
                  \o <<Frame("find_actions", "loop", i_children(Top.stmt)[Top.i],
                             None, FALSE, 1, EmptyDict, "")>>
    /\ UNCHANGED << Inputs, definitions, data_properties, ops_properties,
                    result, ret, type_calls, keyed, compiled, innermost >>

FindActionsReturn ==
    /\ Running("find_actions", "loop")
    /\ Top.i > Len(i_children(Top.stmt))
    /\ stack' = Caller
    /\ ret' = None
    /\ UNCHANGED << Inputs, definitions, data_properties, ops_properties,
                    result, type_calls, keyed, compiled, innermost >>

(***************************************************************************)
(* produce_operation                                                       *)
(***************************************************************************)

\* The object wrapped around the compiled children of input / output.
IOObject(props) ==
    [type |-> "object", properties |-> props, additionalProperties |-> FALSE]

\* op_schema with the given properties, passed through annotate_schema.
OperationSchema(n, props) ==
    annotate_schema(Stmt(n),
        [type |-> "object",
         description |-> IF Stmt(n).description # << >>
                         THEN Stmt(n).description[1] ELSE "",
         properties |-> props,
         additionalProperties |-> FALSE])

OperationInput ==
    /\ Running("produce_operation", "input")
    /\ search_one(Top.stmt, "input") # 0
    /\ CanCall(1)
    /\ stack' = Goto([Top EXCEPT !.pc = "input_ret"])
                  \o <<ChildrenFrame(search_one(Top.stmt, "input"), FALSE)>>
    /\ UNCHANGED << Inputs, definitions, data_properties, ops_properties,
                    result, ret, type_calls, keyed, compiled, innermost >>

OperationNoInput ==
    /\ Running("produce_operation", "input")
    /\ search_one(Top.stmt, "input") = 0
    /\ stack' = Goto([Top EXCEPT !.pc = "output"])
    /\ UNCHANGED << Inputs, definitions, data_properties, ops_properties,
                    result, ret, type_calls, keyed, compiled, innermost >>

OperationInputStore ==
    /\ Running("produce_operation", "input_ret")
    /\ stack' = Goto([Top EXCEPT !.pc = "output",
                                 !.acc = ("input" :> IOObject(ret)) @@ @])
    /\ UNCHANGED << Inputs, definitions, data_properties, ops_properties,
                    result, ret, type_calls, keyed, compiled, innermost >>

OperationOutput ==
    /\ Running("produce_operation", "output")
    /\ search_one(Top.stmt, "output") # 0
    /\ CanCall(1)
    /\ stack' = Goto([Top EXCEPT !.pc = "output_ret"])
                  \o <<ChildrenFrame(search_one(Top.stmt, "output"), FALSE)>>
    /\ UNCHANGED << Inputs, definitions, data_properties, ops_properties,
                    result, ret, type_calls, keyed, compiled, innermost >>

\* No output node: return annotate_schema(stmt, op_schema)
OperationReturn ==
    /\ Running("produce_operation", "output")
    /\ search_one(Top.stmt, "output") = 0
    /\ ret' = OperationSchema(Top.stmt, Top.acc)
    /\ stack' = Caller
    /\ UNCHANGED << Inputs, definitions, data_properties, ops_properties,
                    result, type_calls, keyed, compiled, innermost >>

\* Store the output object and return annotate_schema(stmt, op_schema)
OperationOutputStore ==
    /\ Running("produce_operation", "output_ret")
    /\ ret' = OperationSchema(Top.stmt, ("output" :> IOObject(ret)) @@ Top.acc)
    /\ stack' = Caller
    /\ UNCHANGED << Inputs, definitions, data_properties, ops_properties,
                    result, type_calls, keyed, compiled, innermost >>

(***************************************************************************)
(* produce_children and the producers                                      *)
(***************************************************************************)

HasChild == Top.i <= Len(i_children(Top.stmt))

Child == i_children(Top.stmt)[Top.i]

\* if config_filter: if ... child.i_config is False: continue
ChildrenFiltered ==
    /\ Running("produce_children", "loop")
    /\ HasChild
    /\ IsFiltered(Stmt(Child), Top.config_filter)
    /\ stack' = Goto([Top EXCEPT !.i = @ + 1])
    /\ UNCHANGED << Inputs, definitions, data_properties, ops_properties,
                    result, ret, type_calls, keyed, compiled, innermost >>

\* child.keyword is not in producers: nothing is stored.
ChildrenUnhandled ==
    /\ Running("produce_children", "loop")
    /\ HasChild
    /\ ~IsFiltered(Stmt(Child), Top.config_filter)
    /\ Stmt(Child).keyword \notin producers
    /\ stack' = Goto([Top EXCEPT !.i = @ + 1])
    /\ UNCHANGED << Inputs, definitions, data_properties, ops_properties,
                    result, ret, type_calls, keyed, compiled, innermost >>

\* choice, anydata, anyxml: the producer is a lambda with a constant result.
ChildrenLambda ==
    /\ Running("produce_children", "loop")
    /\ HasChild
    /\ ~IsFiltered(Stmt(Child), Top.config_filter)
    /\ Stmt(Child).keyword \in {"choice", "anydata", "anyxml"}
    /\ LET member_name == qualify_name(Child)
           schema == LambdaProducer(Stmt(Child).keyword)
       IN  /\ keyed' = keyed \cup {<<Child, member_name>>}
           /\ stack' = Goto([Top EXCEPT
                  !.i = @ + 1,
                  !.acc = IF Truthy(schema)
                          THEN (member_name :> schema) @@ @ ELSE @])
    /\ UNCHANGED << Inputs, definitions, data_properties, ops_properties,
                    result, ret, type_calls, compiled, innermost >>

\* container, list: the producer calls produce_children with the same filter.
ChildrenCallStructure ==
    /\ Running("produce_children", "loop")
    /\ HasChild
    /\ ~IsFiltered(Stmt(Child), Top.config_filter)
    /\ Stmt(Child).keyword \in {"container", "list"}
    /\ CanCall(2)
    /\ keyed' = keyed \cup {<<Child, qualify_name(Child)>>}
    /\ stack' = Goto([Top EXCEPT !.pc = "store", !.key = qualify_name(Child)])
                  \o <<Frame(IF Stmt(Child).keyword = "container"
                             THEN "produce_container" ELSE "produce_list",
                             "ret", Child, None, Top.config_filter, 1,
                             EmptyDict, ""),
                       ChildrenFrame(Child, Top.config_filter)>>
    /\ UNCHANGED << Inputs, definitions, data_properties, ops_properties,
                    result, ret, type_calls, compiled, innermost >>

\* leaf, leaf-list: the producer calls produce_type(stmt.search_one("type")).
ChildrenCallTyped ==
    /\ Running("produce_children", "loop")
    /\ HasChild
    /\ ~IsFiltered(Stmt(Child), Top.config_filter)
    /\ Stmt(Child).keyword \in {"leaf", "leaf-list"}
    /\ CanCall(2)
    /\ keyed' = keyed \cup {<<Child, qualify_name(Child)>>}
    /\ stack' = Goto([Top EXCEPT !.pc = "store", !.key = qualify_name(Child)])
                  \o <<Frame(IF Stmt(Child).keyword = "leaf"
                             THEN "produce_leaf" ELSE "produce_leaf_list",
                             "ret", Child, None, Top.config_filter, 1,
                             EmptyDict, ""),
                       TypeFrame(Stmt(Child).type)>>
    /\ UNCHANGED << Inputs, definitions, data_properties, ops_properties,
                    result, ret, type_calls, compiled, innermost >>

\* if schema: props[member_name] = schema
ChildrenStore ==
    /\ Running("produce_children", "store")
    /\ stack' = Goto([Top EXCEPT
           !.pc = "loop",
           !.i = @ + 1,
           !.acc = IF Truthy(ret) THEN (Top.key :> ret) @@ @ ELSE @])
    /\ UNCHANGED << Inputs, definitions, data_properties, ops_properties,
                    result, ret, type_calls, keyed, compiled, innermost >>

\* return props
ChildrenReturn ==
    /\ Running("produce_children", "loop")
    /\ ~HasChild
    /\ ret' = Top.acc
    /\ stack' = Caller
    /\ UNCHANGED << Inputs, definitions, data_properties, ops_properties,
                    result, type_calls, keyed, compiled, innermost >>

produce_container ==
    /\ Running("produce_container", "ret")
    /\ ret' = annotate_schema(Stmt(Top.stmt),
                 [type |-> "object", properties |-> ret,
                  additionalProperties |-> FALSE])
    /\ stack' = Caller
    /\ UNCHANGED << Inputs, definitions, data_properties, ops_properties,
                    result, type_calls, keyed, compiled, innermost >>

produce_list ==
    /\ Running("produce_list", "ret")
    /\ ret' = annotate_schema(Stmt(Top.stmt),
                 [type |-> "array",
                  items |-> [type |-> "object", properties |-> ret,
                             additionalProperties |-> FALSE]])
    /\ stack' = Caller
    /\ UNCHANGED << Inputs, definitions, data_properties, ops_properties,
                    result, type_calls, keyed, compiled, innermost >>

produce_leaf_list ==
    /\ Running("produce_leaf_list", "ret")
    /\ ret' = annotate_schema(Stmt(Top.stmt), [type |-> "array", items |-> ret])
    /\ stack' = Caller
    /\ UNCHANGED << Inputs, definitions, data_properties, ops_properties,
                    result, type_calls, keyed, compiled, innermost >>

produce_leaf ==
    /\ Running("produce_leaf", "ret")
    /\ ret' = annotate_schema(Stmt(Top.stmt), ret)
    /\ stack' = Caller
    /\ UNCHANGED << Inputs, definitions, data_properties, ops_properties,
                    result, type_calls, keyed, compiled, innermost >>

(***************************************************************************)
(* produce_type                                                            *)
(***************************************************************************)

IsTypedef(type_stmt) == type_stmt # None /\ type_stmt.i_typedef # 0

IsUnion(type_stmt) ==
    type_stmt # None /\ type_stmt.i_typedef = 0 /\ type_stmt.arg = "union"

\* A variant of the dedup test that never finds the key.
InRegistry_Never(key) == FALSE

\* def_key in defs
InRegistry(key) == key \in DOMAIN definitions

\* A variant that recurses without leaving a placeholder behind.
InsertPlaceholder_Skipped(defs, key) == defs

\* defs[def_key] = {}
InsertPlaceholder(defs, key) == (key :> EmptyDict) @@ defs

\* A variant that never writes the compiled base type back.
StoreDefinition_Skipped(defs, key, typedef, base_schema) == defs

\* defs[def_key] = annotate_schema(typedef, base_schema)
StoreDefinition(defs, key, typedef, base_schema) ==
    (key :> annotate_schema(typedef, base_schema)) @@ defs

\* The history of produce_type calls, extended by the call that returns now.
Logged(value) ==
    type_calls \cup {[type_stmt |-> Top.type_stmt, result |-> value]}

\* The innermost active call that is compiling a typedef's base type.
EnclosingTypedef ==
    LET ds == {d \in 1 .. Len(stack) - 1 :
                  stack[d].fn = "produce_type" /\ stack[d].pc = "overwrite"}
    IN  stack[CHOOSE d \in ds : \A e \in ds : e <= d]

\* if not type_stmt: return {"type": "string"}
TypeMissing ==
    /\ Running("produce_type", "start")
    /\ Top.type_stmt = None
    /\ ret' = [type |-> "string"]
    /\ type_calls' = Logged(ret')
    /\ stack' = Caller
    /\ UNCHANGED << Inputs, definitions, data_properties, ops_properties,
                    result, keyed, compiled, innermost >>

\* A typedef not yet in the registry: placeholder, then compile its base type.
TypedefEnter ==
    /\ Running("produce_type", "start")
    /\ IsTypedef(Top.type_stmt)
    /\ LET typedef == typedefs[Top.type_stmt.i_typedef]
           key == def_key(typedef)
       IN  /\ ~InRegistry(key)
           /\ CanCall(1)
           /\ definitions' = InsertPlaceholder(definitions, key)
           /\ compiled' = (key :> (IF key \in DOMAIN compiled
                                   THEN compiled[key] + 1 ELSE 1)) @@ compiled
           /\ stack' = Goto([Top EXCEPT !.pc = "overwrite", !.key = key])
                         \o <<TypeFrame(typedef.type)>>
    /\ UNCHANGED << Inputs, data_properties, ops_properties, result, ret,
                    type_calls, keyed, innermost >>

\* The base type is compiled: overwrite the placeholder, return the reference.
TypedefOverwrite ==
    /\ Running("produce_type", "overwrite")
    /\ definitions' = StoreDefinition(definitions, Top.key,
                                      typedefs[Top.type_stmt.i_typedef], ret)
    /\ ret' = TypedefRef(Top.key)
    /\ type_calls' = Logged(ret')
    /\ stack' = Caller
    /\ UNCHANGED << Inputs, data_properties, ops_properties, result, keyed,
                    compiled, innermost >>

\* A typedef already in the registry: return the reference at once.
TypedefFound ==
    /\ Running("produce_type", "start")
    /\ IsTypedef(Top.type_stmt)
    /\ LET key == def_key(typedefs[Top.type_stmt.i_typedef])
       IN  /\ InRegistry(key)
           /\ ret' = TypedefRef(key)
           /\ innermost' =
                 IF InProgress(key)
                 THEN innermost \cup
                        {[member |-> EnclosingTypedef.key, target |-> key,
                          direct |-> stack[Len(stack) - 1].pc = "overwrite"]}
                 ELSE innermost
    /\ type_calls' = Logged(ret')
    /\ stack' = Caller
    /\ UNCHANGED << Inputs, definitions, data_properties, ops_properties,
                    result, keyed, compiled >>

\* Numeric, string, boolean, enumeration, empty, and the fallback.
TypeBuiltin ==
    /\ Running("produce_type", "start")
    /\ Top.type_stmt # None
    /\ ~IsTypedef(Top.type_stmt)
    /\ ~IsUnion(Top.type_stmt)
    /\ ret' = BuiltinType(Top.type_stmt)
    /\ type_calls' = Logged(ret')
    /\ stack' = Caller
    /\ UNCHANGED << Inputs, definitions, data_properties, ops_properties,
                    result, keyed, compiled, innermost >>

\* [produce_type(t, defs, opts) for t in type_stmt.search("type")]: next member
UnionCall ==
    /\ stack # << >>
    /\ Top.fn = "produce_type"
    /\ Top.pc \in {"start", "union"}
    /\ IsUnion(Top.type_stmt)
    /\ Top.i <= Len(Top.type_stmt.type)
    /\ CanCall(1)
    /\ stack' = Goto([Top EXCEPT !.pc = "union_ret"])
                  \o <<TypeFrame(Top.type_stmt.type[Top.i])>>
    /\ UNCHANGED << Inputs, definitions, data_properties, ops_properties,
                    result, ret, type_calls, keyed, compiled, innermost >>

UnionCollect ==
    /\ Running("produce_type", "union_ret")
    /\ stack' = Goto([Top EXCEPT !.pc = "union", !.i = @ + 1,
                                 !.acc = Append(@, ret)])
    /\ UNCHANGED << Inputs, definitions, data_properties, ops_properties,
                    result, ret, type_calls, keyed, compiled, innermost >>

\* return {"anyOf": [...]}
UnionReturn ==
    /\ stack # << >>
    /\ Top.fn = "produce_type"
    /\ Top.pc \in {"start", "union"}
    /\ IsUnion(Top.type_stmt)
    /\ Top.i > Len(Top.type_stmt.type)
    /\ ret' = [anyOf |-> Top.acc]
    /\ type_calls' = Logged(ret')
    /\ stack' = Caller
    /\ UNCHANGED << Inputs, definitions, data_properties, ops_properties,
                    result, keyed, compiled, innermost >>

(***************************************************************************)
(* The run                                                                 *)
(***************************************************************************)

Next ==
    \/ EmitDataCall
    \/ EmitDataUpdate
    \/ EmitDataDone
    \/ EmitRpcCall
    \/ EmitRpcSkip
    \/ EmitRpcStore
    \/ EmitFindActions
    \/ EmitAssemble
    \/ FindActionsCall
    \/ FindActionsStore
    \/ FindActionsDescend
    \/ FindActionsReturn
    \/ OperationInput
    \/ OperationNoInput
    \/ OperationInputStore
    \/ OperationOutput
    \/ OperationReturn
    \/ OperationOutputStore
    \/ ChildrenFiltered
    \/ ChildrenUnhandled
    \/ ChildrenLambda
    \/ ChildrenCallStructure
    \/ ChildrenCallTyped
    \/ ChildrenStore
    \/ ChildrenReturn
    \/ produce_container
    \/ produce_list
    \/ produce_leaf_list
    \/ produce_leaf
    \/ TypeMissing
    \/ TypedefEnter
    \/ TypedefOverwrite
    \/ TypedefFound
    \/ TypeBuiltin
    \/ UnionCall
    \/ UnionCollect
    \/ UnionReturn

Spec == Init /\ [][Next]_vars

\* The interpreter runs the single thread until emit returns.
FairSpec == Spec /\ WF_vars(Next)

(***************************************************************************)
(* Reading the emitted document.                                           *)
(***************************************************************************)

Lookup(dict, key) == IF key \in DOMAIN dict THEN dict[key] ELSE None

DocData == result["properties"]["data"]["properties"]

DocOps == result["properties"]["operations"]["properties"]

DocDefs == Lookup(result, "$defs")

\* The properties mapping an object or list fragment holds for its children.
Props(f) ==
    IF "properties" \in DOMAIN f THEN f["properties"]
    ELSE IF "items" \in DOMAIN f /\ "properties" \in DOMAIN f["items"]
    THEN f["items"]["properties"]
    ELSE EmptyDict

RECURSIVE RootOf(_)
RootOf(n) == IF Stmts[n].parent = 0 THEN n ELSE RootOf(Stmts[n].parent)

\* The statements of the modules handed to this run.
RunNodes ==
    {n \in NodeIds : Stmts[n].parent # 0
                     /\ \E m \in 1 .. Len(modules) : modules[m] = RootOf(n)}

RECURSIVE IsUnder(_, _)
IsUnder(d, n) ==
    d = n \/ (Stmts[d].parent # 0 /\ IsUnder(Stmts[d].parent, n))

\* The fragment stored for n in the data section, following the keys of its
\* ancestors from data.properties down; None when n is not there.
RECURSIVE DataFrag(_)
DataFrag(n) ==
    IF Stmts[Stmts[n].parent].keyword = "module"
    THEN Lookup(DocData, qualify_name(n))
    ELSE Lookup(Props(DataFrag(Stmts[n].parent)), qualify_name(n))

\* The fragment stored for n in the operations section: an operation under its
\* key, its input / output under that keyword, their descendants below.
RECURSIVE OpsFrag(_)
OpsFrag(n) ==
    IF Stmts[n].keyword \in {"rpc", "action"}
    THEN Lookup(DocOps, qualify_name(n))
    ELSE IF Stmts[n].parent = 0 \/ Stmts[Stmts[n].parent].keyword = "module"
    THEN None
    ELSE IF Stmts[n].keyword \in {"input", "output"}
    THEN Lookup(Props(OpsFrag(Stmts[n].parent)), Stmts[n].keyword)
    ELSE Lookup(Props(OpsFrag(Stmts[n].parent)), qualify_name(n))

\* The fragment stored for n in either section.
Frag(n) == IF DataFrag(n) # None THEN DataFrag(n) ELSE OpsFrag(n)

\* Every $ref string that occurs in a fragment, at any depth.
RECURSIVE RefsOf(_)
RefsOf(f) ==
    (IF "$ref" \in DOMAIN f THEN {f["$ref"]} ELSE {})
    \cup (IF "properties" \in DOMAIN f
          THEN UNION {RefsOf(f["properties"][k]) : k \in DOMAIN f["properties"]}
          ELSE {})
    \cup (IF "$defs" \in DOMAIN f
          THEN UNION {RefsOf(f["$defs"][k]) : k \in DOMAIN f["$defs"]}
          ELSE {})
    \cup (IF "items" \in DOMAIN f THEN RefsOf(f["items"]) ELSE {})
    \cup (IF "anyOf" \in DOMAIN f
          THEN UNION {RefsOf(f["anyOf"][j]) : j \in 1 .. Len(f["anyOf"])}
          ELSE {})

\* The DefinitionKey the specification gives a typedef.
DefinitionKey(typedef) ==
    IF opts.schema_no_ns THEN typedef.arg
    ELSE typedef.i_module \o "_" \o typedef.arg

Reference(key) == ("$ref" :> ("#/$defs/" \o key))

\* The node kinds whose fragments are stored under a key.
StoredKinds == {"container", "list", "leaf", "leaf-list", "anydata", "anyxml"}

\* The type fragment inside the fragment stored for a leaf or leaf-list.
TypeFragment(n) ==
    IF Stmts[n].keyword = "leaf-list" THEN Frag(n)["items"] ELSE Frag(n)

(***************************************************************************)
(* Properties                                                              *)
(***************************************************************************)

\* The leaves and leaf-lists of the run whose fragment reached the document.
StoredTyped ==
    {n \in RunNodes : Stmts[n].keyword \in {"leaf", "leaf-list"}
                      /\ Frag(n) # None}

\* C1 (dedup): every type descriptor the run compiles that resolves to a
\* typedef yields exactly the reference to that typedef's DefinitionKey, the
\* key is in the registry from then on, and in the finished document $defs
\* holds exactly one entry for the key while every stored leaf or leaf-list
\* of that type, in data or in operations, carries that same reference.
DedupOneDefinition ==
    /\ \A c \in type_calls :
          IsTypedef(c.type_stmt) =>
             LET key == DefinitionKey(typedefs[c.type_stmt.i_typedef])
             IN  /\ c.result = Reference(key)
                 /\ key \in DOMAIN definitions
    /\ Done =>
          /\ \A c \in type_calls :
                IsTypedef(c.type_stmt) =>
                   Cardinality({k \in DOMAIN DocDefs :
                        k = DefinitionKey(typedefs[c.type_stmt.i_typedef])}) = 1
          /\ \A n \in StoredTyped :
                IsTypedef(Stmts[n].type) =>
                   LET key == DefinitionKey(typedefs[Stmts[n].type.i_typedef])
                   IN  /\ "$ref" \in DOMAIN TypeFragment(n)
                       /\ TypeFragment(n)["$ref"] = Reference(key)["$ref"]
                       /\ key \in DOMAIN DocDefs

\* A finished run in which typedef 1 is referenced by a leaf and a leaf-list
\* of the data section, by a union member, and by a leaf of an action's input.
DedupWitness ==
    /\ Done
    /\ {5, 6, 23} \subseteq StoredTyped
    /\ TypeFragment(5)["$ref"] = TypeFragment(6)["$ref"]
    /\ TypeFragment(6)["$ref"] = TypeFragment(23)["$ref"]
    /\ Cardinality({c \in type_calls : IsTypedef(c.type_stmt)
                                       /\ c.type_stmt.i_typedef = 1}) >= 4

\* The member leaves of a choice: the leaves of its cases.
ChoiceMembers(c) ==
    {l \in NodeIds : /\ Stmts[l].keyword = "leaf"
                     /\ l # c
                     /\ IsUnder(l, c)}

\* C2 (choice flattening): for every choice whose enclosing object is in the
\* document, that object's properties hold no key for the choice and hold
\* every member leaf of the choice as a direct property.
ChoiceFlattening ==
    Done =>
       \A c \in RunNodes :
          (Stmts[c].keyword = "choice" /\ Frag(Stmts[c].parent) # None) =>
             LET props == Props(Frag(Stmts[c].parent))
             IN  /\ qualify_name(c) \notin DOMAIN props
                 /\ \A l \in ChoiceMembers(c) :
                       \/ Stmts[l].arg \in DOMAIN props
                       \/ Qualified(Stmts[l].i_module, Stmts[l].arg)
                             \in DOMAIN props

\* The first half of C2 alone, which the code does satisfy.
ChoiceHasNoKey ==
    Done =>
       \A c \in RunNodes :
          (Stmts[c].keyword = "choice" /\ Frag(Stmts[c].parent) # None) =>
             qualify_name(c) \notin DOMAIN Props(Frag(Stmts[c].parent))

\* C3 (config filtering): with config-only set, no node whose i_config is
\* False, and no descendant of it, is in data.properties; and whatever the
\* option and the flags, every child of an operation's input or output that
\* has a storing producer is in that operation's input / output properties.
ConfigFiltering ==
    Done =>
       /\ opts.schema_config_only =>
             \A n \in RunNodes :
                Stmt(n).i_config = "false" =>
                   \A d \in RunNodes : IsUnder(d, n) => DataFrag(d) = None
       /\ \A op \in RunNodes :
             Stmts[op].keyword \in {"rpc", "action"} =>
                \A io \in RunNodes :
                   (Stmts[io].parent = op
                    /\ Stmts[io].keyword \in {"input", "output"}) =>
                      /\ OpsFrag(io) # None
                      /\ \A c \in RunNodes :
                            (Stmts[c].parent = io
                             /\ Stmts[c].keyword \in StoredKinds) =>
                               qualify_name(c) \in DOMAIN Props(OpsFrag(io))

\* A config-only run: the false leaf "st" two levels down is gone while its
\* sibling stays, "mid" is gone with the subtree below it, and the false leaf
\* "ro" is present in the rpc's output.
ConfigFilteringWitness ==
    /\ Done
    /\ opts.schema_config_only
    /\ probe_config = "false"
    /\ modules = <<1, 31>>
    /\ DataFrag(17) # None
    /\ DataFrag(18) = None
    /\ DataFrag(19) = None
    /\ DataFrag(24) = None
    /\ Stmt(29).i_config = "false"
    /\ OpsFrag(29) # None
    /\ OpsFrag(23) # None

\* The key the specification's four rules give a node.
QualifiedKey(n) ==
    IF \/ Stmts[n].keyword \in {"rpc", "action"}
       \/ Stmts[Stmts[n].parent].keyword \in {"module", "submodule"}
       \/ Stmts[n].i_module # Stmts[Stmts[n].parent].i_module
    THEN Stmts[n].i_module \o ":" \o Stmts[n].arg
    ELSE Stmts[n].arg

RECURSIVE Depth(_)
Depth(n) == IF Stmts[n].parent = 0 THEN 0 ELSE 1 + Depth(Stmts[n].parent)

\* C4 (qualification): every key qualify_name produced during the run is
\* "<module>:<name>" for an rpc or action, for a child of a module, and for a
\* node whose module differs from its parent's, and the bare name otherwise;
\* in the finished document every operation is stored under its qualified key.
Qualification ==
    /\ \A e \in keyed : e[2] = QualifiedKey(e[1])
    /\ Done =>
          \A op \in RunNodes :
             Stmts[op].keyword \in {"rpc", "action"} =>
                (Stmts[op].i_module \o ":" \o Stmts[op].arg) \in DOMAIN DocOps

\* An action below three containers keyed with its module, next to an
\* augmented leaf (qualified) and a plain leaf (bare).
QualificationWitness ==
    /\ Done
    /\ Depth(21) = 4
    /\ <<21, "m1:act">> \in keyed
    /\ "m1:act" \in DOMAIN DocOps
    /\ <<15, "m2:aug">> \in keyed
    /\ <<3, "a">> \in keyed
    /\ <<2, "m1:top">> \in keyed

\* The type names the mapping table recognizes.
RecognizedTypes ==
    {"int8", "int16", "int32", "uint8", "uint16", "uint32", "int64", "uint64",
     "decimal64", "string", "boolean", "enumeration", "empty", "union"}

\* C5 (type mapping): every produce_type call returns a fragment; for a
\* descriptor that is no typedef the fragment is {type: integer} for the
\* 8/16/32-bit integers, the digit-string fragment for int64 / uint64, the
\* null-marker array for empty, {type: string} for a missing or unrecognized
\* type, and for a union {anyOf: [...]} of the members' fragments in order.
TypeMapping ==
    \A c \in type_calls :
       /\ Truthy(c.result)
       /\ c.type_stmt = None => c.result = [type |-> "string"]
       /\ (c.type_stmt # None /\ ~IsTypedef(c.type_stmt)) =>
             LET name == c.type_stmt.arg
             IN  /\ name \in {"int8", "int16", "int32", "uint8", "uint16",
                              "uint32"} => c.result = [type |-> "integer"]
                 /\ name \in {"int64", "uint64"} =>
                       c.result = [type |-> "string", pattern |-> "^-?[0-9]+$"]
                 /\ name = "empty" =>
                       c.result = [type |-> "array",
                                   prefixItems |-> <<[type |-> "null"]>>,
                                   maxItems |-> 1]
                 /\ name \notin RecognizedTypes =>
                       c.result = [type |-> "string"]
                 /\ name = "union" =>
                       /\ DOMAIN c.result = {"anyOf"}
                       /\ Len(c.result["anyOf"]) = Len(c.type_stmt.type)
                       /\ \A j \in 1 .. Len(c.type_stmt.type) :
                             [type_stmt |-> c.type_stmt.type[j],
                              result |-> c.result["anyOf"][j]] \in type_calls

\* A finished run that compiled uint64, empty, an unknown type, a missing
\* type, and the union of string and int32 in that order.
TypeMappingWitness ==
    /\ Done
    /\ [type_stmt |-> Stmts[7].type,
        result |-> [anyOf |-> <<[type |-> "string"], [type |-> "integer"]>>]]
          \in type_calls
    /\ \E c \in type_calls : c.type_stmt = None
    /\ \E c \in type_calls : c.type_stmt # None /\ c.type_stmt.arg = "uint64"
    /\ \E c \in type_calls : c.type_stmt # None /\ c.type_stmt.arg = "empty"
    /\ \E c \in type_calls : c.type_stmt # None /\ c.type_stmt.arg = "binary"

\* C6 (cycle guard termination): every run reaches completion, whatever the
\* typedefs' base types resolve to (themselves, each other, a union member).
Termination == <>Done

\* A finished run over a typedef whose base type reaches a key in progress
\* through a union member, and whose stack never came near its cap.
TerminationWitness ==
    /\ Done
    /\ \E e \in innermost : ~e.direct

\* A key is complete once it is in the registry and no longer in progress.
Complete(key) == key \in DOMAIN definitions /\ ~InProgress(key)

\* A produce_type call is about to look up a key that is in the registry.
LookupOfPresentKey ==
    /\ Running("produce_type", "start")
    /\ IsTypedef(Top.type_stmt)
    /\ DefinitionKey(typedefs[Top.type_stmt.i_typedef]) \in DOMAIN definitions

\* C7 (append-only registry): in every step of a run the registry keeps all
\* its keys, a complete entry stays complete and unchanged, a call for a key
\* that is present returns the reference and leaves the registry alone, and
\* no key's base type is compiled more than once.
RegistryAppendOnly ==
    [][/\ DOMAIN definitions \subseteq DOMAIN definitions'
       /\ \A k \in DOMAIN definitions :
             Complete(k) => (Complete(k)' /\ definitions'[k] = definitions[k])
       /\ (LookupOfPresentKey /\ stack' # stack) =>
             /\ definitions' = definitions
             /\ compiled' = compiled
             /\ ret' = Reference(
                          DefinitionKey(typedefs[Top.type_stmt.i_typedef]))
       /\ \A k \in DOMAIN compiled' : compiled'[k] <= 1]_vars

\* A state in which one key is complete and has been looked up again since,
\* while another key is still in progress behind its placeholder.
RegistryWitness ==
    \E k1, k2 \in DOMAIN definitions :
       /\ Complete(k1)
       /\ compiled[k1] = 1
       /\ Cardinality({c \in type_calls : c.result = Reference(k1)}) >= 2
       /\ InProgress(k2)
       /\ definitions[k2] = EmptyDict

\* C8 as stated: after the run, the $defs entry of every innermost cycle
\* member is the empty placeholder.
CyclicEntryStaysPlaceholder ==
    Done => \A e \in innermost : definitions[e.member] = EmptyDict

\* C8 as amended: after the run no $defs entry is the empty placeholder; the
\* entry of an innermost cycle member is complete, and when its base type
\* resolves directly to the key in progress the entry is the reference to
\* that key.
CyclicEntryIsReference ==
    Done =>
       /\ \A k \in DOMAIN definitions : definitions[k] # EmptyDict
       /\ \A e \in innermost :
             /\ e.member \in DOMAIN DocDefs
             /\ DocDefs[e.member] # EmptyDict
             /\ e.direct =>
                   /\ "$ref" \in DOMAIN DocDefs[e.member]
                   /\ DocDefs[e.member]["$ref"] = "#/$defs/" \o e.target

\* A finished run over two typedefs that resolve to each other.
CyclicEntryWitness ==
    /\ Done
    /\ \E e \in innermost : e.direct /\ e.member # e.target

\* Bounded substring test over the texts that occur in the tree.
Affixes ==
    {"", "Condition: "}
    \cup {d \o "\n\nCondition: " : d \in {Stmts[n].description[1] :
               n \in {m \in NodeIds : Stmts[m].description # << >>}}}
    \cup {"\n\nCondition: " \o Stmts[n].when[1] :
               n \in {m \in NodeIds : Stmts[m].when # << >>}}
    \cup {"\n\nSupported values:\n  * up: Link is up"}

Contains(text, part) ==
    \E pre \in Affixes, post \in Affixes : text = pre \o part \o post

\* C9 (annotation coverage): the fragment stored for a container, list, leaf,
\* leaf-list, anydata or anyxml carries a description that contains the
\* node's own description and each of its when-conditions.
AnnotationCoverage ==
    Done =>
       \A n \in RunNodes :
          (Stmts[n].keyword \in StoredKinds /\ Frag(n) # None) =>
             /\ Stmts[n].description # << >> =>
                   /\ "description" \in DOMAIN Frag(n)
                   /\ Contains(Frag(n)["description"], Stmts[n].description[1])
             /\ \A j \in 1 .. Len(Stmts[n].when) :
                   /\ "description" \in DOMAIN Frag(n)
                   /\ Contains(Frag(n)["description"], Stmts[n].when[j])

\* The same for the four kinds whose producer is a function of the module.
AnnotationOfProducers ==
    Done =>
       \A n \in RunNodes :
          (Stmts[n].keyword \in {"container", "list", "leaf", "leaf-list"}
           /\ Frag(n) # None) =>
             /\ Stmts[n].description # << >> =>
                   /\ "description" \in DOMAIN Frag(n)
                   /\ Contains(Frag(n)["description"], Stmts[n].description[1])
             /\ \A j \in 1 .. Len(Stmts[n].when) :
                   /\ "description" \in DOMAIN Frag(n)
                   /\ Contains(Frag(n)["description"], Stmts[n].when[j])

\* C10 (reference integrity): every $ref of the emitted document, in data,
\* operations or $defs, points at a key of the emitted $defs; a document
\* without $defs holds no $ref.
ReferenceIntegrity ==
    Done =>
       /\ \A r \in RefsOf(result) :
             /\ "$defs" \in DOMAIN result
             /\ \E k \in DOMAIN result["$defs"] : r = "#/$defs/" \o k
       /\ "$defs" \notin DOMAIN result => RefsOf(result) = {}

\* A document with references in the data section, in the operations section
\* and inside $defs itself.
ReferenceIntegrityWitness ==
    /\ Done
    /\ RefsOf([properties |-> DocData]) # {}
    /\ RefsOf([properties |-> DocOps]) # {}
    /\ "$defs" \in DOMAIN result
    /\ \E k \in DOMAIN result["$defs"] : RefsOf(result["$defs"][k]) # {}

\* A document from which the empty $defs was removed.
DefsRemoved == Done /\ "$defs" \notin DOMAIN result

====
